---- MODULE Spec2Model ----
(***************************************************************************)
(* Model of the Locust load-test scenarios of                              *)
(*   src/integration-tests/performance/concurrent-users-locust.py          *)
(*   src/integration-tests/performance/content-streaming-locust.py         *)
(*                                                                         *)
(* A simulated user is one session: on_start, then the loop                *)
(* "run one task, wait".  A request and its response are one atomic step   *)
(* of the session that issues it; the steps of different sessions          *)
(* interleave freely.  Request payloads (json=...) are left out: no        *)
(* header, status check or session attribute depends on them.              *)
(*                                                                         *)
(* Python values are tagged (PyStr, PyInt, PyNone) and a formatted string  *)
(* is the sequence of its parts: Lit(..) for literal text, the value       *)
(* itself for an interpolated {value}.  Response bodies are JSON objects   *)
(* (dicts), as the API returns them.                                       *)
(***************************************************************************)
EXTENDS Integers, Sequences, FiniteSets, TLC

VARIABLES
    profile,              \* session -> the user class the runtime spawned
    pc,                   \* session -> "new" | "ready" | "waiting" | "stopped"
    user_id,              \* session -> self.user_id
    auth_token,           \* session -> self.auth_token
    created_content_ids,  \* session -> self.created_content_ids (CreatorUser)
    client_headers,       \* session -> self.client.headers (session-wide headers)
    step,                 \* the last step taken: who, which task, what was sent,
                          \* received, recorded and logged, how long it slept
    startToken,           \* history: session -> auth_token as on_start left it
    published,            \* history: session -> a publish_content was recorded
                          \*          as a success
    returnedIds,          \* history: session -> truthy ids of 201 publish bodies
    loginCount            \* history: session -> login requests issued

vars == <<profile, pc, user_id, auth_token, created_content_ids,
          client_headers, step, startToken, published, returnedIds, loginCount>>

(***************************************************************************)
(* Bounds of the model                                                     *)
(***************************************************************************)
\* random.randint(1, 100) / list(range(1, 101)): ids are drawn from 1..MaxContentId
MaxContentId == 2
\* longest created_content_ids the model follows
MaxCreated == 2
\* random.random() is k/Resolution, k in 0..Resolution-1
Resolution == 4
\* random.randint(1, 10): pages are drawn from 1..MaxPage
MaxPage == 1

Sessions == {"s1", "s2"}
\* the user classes of the two locustfiles; a run loads one file
ConcurrentUsersClasses == {"ContentViewerUser", "CreatorUser", "SubscriberUser"}
ContentStreamingClasses == {"ContentStreamingUser"}
\* values uuid4() returns
UUIDs == {"uuid-a"}

(***************************************************************************)
(* Python values and formatted strings                                     *)
(***************************************************************************)
PyStr(s) == [str |-> s]
PyInt(n) == [int |-> n]
PyNone == [none |-> TRUE]
Lit(s) == [lit |-> s]

\* bool(v) of the values that occur
Truthy(v) == v \notin {PyNone, PyInt(0), PyStr("")}

EmptyDict == [k \in {} |-> k]
\* dict.get(key, default)
DictGet(d, key, default) == IF key \in DOMAIN d THEN d[key] ELSE default

\* part occurs in text as a contiguous run of parts
Contains(text, part) ==
    \E i \in 0..(Len(text) - Len(part)) :
        \A j \in 1..Len(part) : text[i + j] = part[j]

Unset == PyStr("<unset>")
PlaceholderToken == PyStr("test-token")

\* f"Bearer {token}"
Bearer(token) == <<Lit("Bearer "), token>>

(***************************************************************************)
(* The target API, as far as the scripts look at it                        *)
(***************************************************************************)
\* 0 is the status_code of the dummy response Locust hands back when the
\* request raised (connection error, timeout)
HttpStatuses == {200, 201, 403, 500}

NoBody == {EmptyDict}
LoginBodies == {EmptyDict, [token |-> PyStr("tokA")], [token |-> PyStr("")]}
PublishBodies == {EmptyDict} \cup {[id |-> PyInt(i)] : i \in 0..MaxContentId}

Errors(req) == IF req.timeout > 0 THEN {"ConnectionError", "ReadTimeout"}
               ELSE {"ConnectionError"}

Responses(req, bodies) ==
    {[status_code |-> 0, error |-> e, body |-> EmptyDict] : e \in Errors(req)}
    \cup {[status_code |-> c, error |-> "none", body |-> b] :
             c \in HttpStatuses, b \in bodies}

Request(method, url, headers, timeout) ==
    [method |-> method, url |-> url, headers |-> headers, timeout |-> timeout]

\* requests merges the session-wide headers under the per-request ones
Send(s, method, url, headers, timeout) ==
    Request(method, url, headers @@ client_headers[s], timeout)

(***************************************************************************)
(* What Locust records for a request                                       *)
(***************************************************************************)
Success(req) ==
    [kind |-> "success", request_type |-> req.method, name |-> req.url,
     message |-> <<>>]
\* response.failure(message)
Failure(req, message) ==
    [kind |-> "failure", request_type |-> req.method, name |-> req.url,
     message |-> message]

\* no response.success()/failure() was called (or catch_response is off):
\* the request is a failure when it raised or raise_for_status() does
AutoOutcome(req, resp) ==
    IF resp.error # "none" THEN Failure(req, <<Lit(resp.error)>>)
    ELSE IF resp.status_code >= 400
         THEN Failure(req, <<PyInt(resp.status_code), Lit(" Error for url: ")>>
                           \o req.url)
         ELSE Success(req)

\* events.request listener of concurrent-users-locust.py
on_failure(out) ==
    IF out.kind = "failure"
    THEN <<(<<Lit("Request failed: "), Lit(out.request_type), Lit(" ")>>
            \o out.name \o <<Lit(" - ")>> \o out.message)>>
    ELSE <<>>

HasListener(p) == p \in {"ContentViewerUser", "CreatorUser", "SubscriberUser"}

Logged(s, outs) ==
    IF HasListener(profile[s]) /\ outs # <<>> THEN on_failure(outs[1]) ELSE <<>>

NoStep ==
    [sess |-> "none", task |-> "none", requests |-> <<>>, responses |-> <<>>,
     outcomes |-> <<>>, logged |-> <<>>, sleep |-> -1]

\* one request, its response and what was recorded for it
Exchange(s, task, req, resp, out) ==
    [sess |-> s, task |-> task, requests |-> <<req>>, responses |-> <<resp>>,
     outcomes |-> <<out>>, logged |-> Logged(s, <<out>>), sleep |-> -1]

\* the task returned without issuing a request
Skipped(s, task) == [NoStep EXCEPT !.sess = s, !.task = task]

(***************************************************************************)
(* wait_time                                                               *)
(***************************************************************************)
\* (variant) the bounds of the viewer and the creator are exchanged
WaitTime_Swapped(p) ==
    CASE p = "ContentViewerUser"    -> [min |-> 2, max |-> 8]
      [] p = "CreatorUser"          -> [min |-> 1, max |-> 5]
      [] p = "SubscriberUser"       -> [min |-> 1, max |-> 4]
      [] p = "ContentStreamingUser" -> [min |-> 1, max |-> 3]

\* wait_time = between(min, max) of the user classes; a TaskSet without a
\* wait_time of its own uses its user's
WaitTime(p) ==
    CASE p = "ContentViewerUser"    -> [min |-> 1, max |-> 5]
      [] p = "CreatorUser"          -> [min |-> 2, max |-> 8]
      [] p = "SubscriberUser"       -> [min |-> 1, max |-> 4]
      [] p = "ContentStreamingUser" -> [min |-> 1, max |-> 3]

\* between(min, max)(): min + random.random() * (max - min), in units of
\* 1/Resolution, random.random() being k/Resolution
between(min, max, k) == min * Resolution + k * (max - min)

(***************************************************************************)
(* Initial state: the runtime has spawned the users `users`, each of some  *)
(* class of the locustfile it runs; nothing has run yet                    *)
(***************************************************************************)
InitWith(users) ==
    /\ profile \in [Sessions -> ConcurrentUsersClasses]
                  \cup [Sessions -> ContentStreamingClasses]
    /\ pc = [s \in Sessions |-> IF s \in users THEN "new" ELSE "stopped"]
    /\ user_id = [s \in Sessions |-> "<unset>"]
    /\ auth_token = [s \in Sessions |-> Unset]
    /\ created_content_ids = [s \in Sessions |-> <<>>]
    /\ client_headers = [s \in Sessions |-> EmptyDict]
    /\ step = NoStep
    /\ startToken = [s \in Sessions |-> Unset]
    /\ published = [s \in Sessions |-> FALSE]
    /\ returnedIds = [s \in Sessions |-> {}]
    /\ loginCount = [s \in Sessions |-> 0]

\* two concurrent users
Init == InitWith(Sessions)

\* a run with a single user
OneUserInit == InitWith({"s1"})

(***************************************************************************)
(* Session bootstrap                                                       *)
(***************************************************************************)
LoginRequest(s) ==
    Send(s, "POST", <<Lit("/api/auth/login")>>,
         "Content-Type" :> <<Lit("application/json")>>, 0)

\* (variant) the status code is not looked at
ContentViewerUser_login_NoStatusCheck(resp) ==
    DictGet(resp.body, "token", PlaceholderToken)

ContentViewerUser_login(resp) ==
    IF resp.status_code = 200
    THEN DictGet(resp.body, "token", PlaceholderToken)
    ELSE PlaceholderToken

CreatorUser_login(resp) ==
    IF resp.status_code = 200
    THEN DictGet(resp.body, "token", PlaceholderToken)
    ELSE PlaceholderToken

SubscriberUser_login(resp) ==
    IF resp.status_code = 200
    THEN DictGet(resp.body, "token", PlaceholderToken)
    ELSE PlaceholderToken

\* the rest of on_start around self.login(): user_id before, the empty list
\* after; the login request is recorded by Locust on its own
Bootstrap(s, uid, req, resp, token) ==
    /\ user_id' = [user_id EXCEPT ![s] = uid]
    /\ auth_token' = [auth_token EXCEPT ![s] = token]
    /\ startToken' = [startToken EXCEPT ![s] = token]
    /\ loginCount' = [loginCount EXCEPT ![s] = @ + 1]
    /\ step' = Exchange(s, "login", req, resp, AutoOutcome(req, resp))
    /\ created_content_ids' = [created_content_ids EXCEPT ![s] = <<>>]
    /\ pc' = [pc EXCEPT ![s] = "ready"]
    /\ UNCHANGED <<profile, client_headers, published, returnedIds>>

ContentViewerUser_on_start(s) ==
    /\ pc[s] = "new"
    /\ profile[s] = "ContentViewerUser"
    /\ \E uid \in UUIDs :
         \E resp \in Responses(LoginRequest(s), LoginBodies) :
            Bootstrap(s, uid, LoginRequest(s), resp,
                      ContentViewerUser_login(resp))

CreatorUser_on_start(s) ==
    /\ pc[s] = "new"
    /\ profile[s] = "CreatorUser"
    /\ \E uid \in UUIDs :
         \E resp \in Responses(LoginRequest(s), LoginBodies) :
            Bootstrap(s, uid, LoginRequest(s), resp, CreatorUser_login(resp))

SubscriberUser_on_start(s) ==
    /\ pc[s] = "new"
    /\ profile[s] = "SubscriberUser"
    /\ \E uid \in UUIDs :
         \E resp \in Responses(LoginRequest(s), LoginBodies) :
            Bootstrap(s, uid, LoginRequest(s), resp, SubscriberUser_login(resp))

\* the streaming user sends no login request: it installs fixed headers
ContentStreamingUser_on_start(s) ==
    /\ pc[s] = "new"
    /\ profile[s] = "ContentStreamingUser"
    /\ client_headers' =
         [client_headers EXCEPT ![s] =
            ("Authorization" :> Bearer(PlaceholderToken))
            @@ ("Content-Type" :> <<Lit("application/json")>>)]
    /\ startToken' = [startToken EXCEPT ![s] = PlaceholderToken]
    /\ step' = Skipped(s, "on_start")
    /\ pc' = [pc EXCEPT ![s] = "ready"]
    /\ UNCHANGED <<profile, user_id, auth_token, created_content_ids,
                   published, returnedIds, loginCount>>

(***************************************************************************)
(* The task loop                                                           *)
(***************************************************************************)
\* what every task leaves alone
TaskFrame ==
    UNCHANGED <<profile, user_id, auth_token, client_headers, startToken,
                loginCount>>

\* a task of class cls is picked for session s (the @task weights are all
\* positive: they set how often a task is picked, not whether it can be)
Picked(s, cls) == pc[s] = "ready" /\ profile[s] = cls

\* (variant) the task ends the user
Done_Exits(s) == pc' = [pc EXCEPT ![s] = "stopped"]

\* the task's with-block ended without raising: the TaskSet goes on to wait()
Done(s) == pc' = [pc EXCEPT ![s] = "waiting"]

\* (variant) the placeholder is sent instead of the session's token
AuthHeader_Hardcoded(s) == "Authorization" :> Bearer(PlaceholderToken)

AuthHeader(s) == "Authorization" :> Bearer(auth_token[s])

\* what the tasks that keep no state leave alone
Stateless ==
    /\ TaskFrame
    /\ UNCHANGED <<created_content_ids, published, returnedIds>>

\* the usual body of a with-block: failure(message) unless ok, else success()
Checked(s, task, req, resp, ok, message) ==
    step' = Exchange(s, task, req, resp,
                     IF ~ok THEN Failure(req, message) ELSE Success(req))

\* TaskSet.wait(): sleep for wait_time()
wait(s) ==
    /\ pc[s] = "waiting"
    /\ \E k \in 0..(Resolution - 1) :
         step' = [NoStep EXCEPT
                    !.sess = s, !.task = "wait",
                    !.sleep = between(WaitTime(profile[s]).min,
                                      WaitTime(profile[s]).max, k)]
    /\ pc' = [pc EXCEPT ![s] = "ready"]
    /\ Stateless

\* test stop: the runtime stops every user; nothing is cleaned up
Stop ==
    /\ \E s \in Sessions : pc[s] # "stopped"
    /\ pc' = [s \in Sessions |-> "stopped"]
    /\ step' = Skipped("runtime", "stop")
    /\ Stateless

(***************************************************************************)
(* ContentViewerUser                                                       *)
(***************************************************************************)
\* self.content_ids = list(range(1, 101)), never modified
content_ids == 1..MaxContentId

search_terms == {"tutorial", "music", "video", "live", "exclusive", "trending"}

browse_content(s) ==
    /\ Picked(s, "ContentViewerUser")
    /\ \E page \in 1..MaxPage, limit \in {10, 20, 50} :
       LET req == Send(s, "GET", <<Lit("/api/content/browse?page="), PyInt(page), Lit("&limit="), PyInt(limit)>>,
                      AuthHeader(s), 0) IN
       \E resp \in Responses(req, NoBody) :
          Checked(s, "browse_content", req, resp, resp.status_code = 200,
                  <<Lit("Browse failed: "), PyInt(resp.status_code)>>)
    /\ Done(s)
    /\ Stateless

view_content(s) ==
    /\ Picked(s, "ContentViewerUser")
    /\ \E content_id \in content_ids :
       LET req == Send(s, "GET", <<Lit("/api/content/"), PyInt(content_id)>>,
                      AuthHeader(s), 0) IN
       \E resp \in Responses(req, NoBody) :
          Checked(s, "view_content", req, resp, resp.status_code = 200,
                  <<Lit("View content "), PyInt(content_id), Lit(" failed: "), PyInt(resp.status_code)>>)
    /\ Done(s)
    /\ Stateless

stream_content(s) ==
    /\ Picked(s, "ContentViewerUser")
    /\ \E content_id \in content_ids :
       LET req == Send(s, "GET", <<Lit("/api/content/"), PyInt(content_id), Lit("/stream")>>,
                      AuthHeader(s), 30) IN
       \E resp \in Responses(req, NoBody) :
          Checked(s, "stream_content", req, resp, resp.status_code = 200,
                  <<Lit("Stream content "), PyInt(content_id), Lit(" failed: "), PyInt(resp.status_code)>>)
    /\ Done(s)
    /\ Stateless

like_content(s) ==
    /\ Picked(s, "ContentViewerUser")
    /\ \E content_id \in content_ids :
       LET req == Send(s, "POST", <<Lit("/api/content/"), PyInt(content_id), Lit("/like")>>,
                      AuthHeader(s), 0) IN
       \E resp \in Responses(req, NoBody) :
          Checked(s, "like_content", req, resp, resp.status_code \in {200, 201},
                  <<Lit("Like content failed: "), PyInt(resp.status_code)>>)
    /\ Done(s)
    /\ Stateless

search_content(s) ==
    /\ Picked(s, "ContentViewerUser")
    /\ \E query \in search_terms :
       LET req == Send(s, "GET", <<Lit("/api/content/search?q="), PyStr(query)>>,
                      AuthHeader(s), 0) IN
       \E resp \in Responses(req, NoBody) :
          Checked(s, "search_content", req, resp, resp.status_code = 200,
                  <<Lit("Search failed: "), PyInt(resp.status_code)>>)
    /\ Done(s)
    /\ Stateless

(***************************************************************************)
(* SubscriberUser                                                          *)
(***************************************************************************)
view_subscriptions(s) ==
    /\ Picked(s, "SubscriberUser")
    /\ LET req == Send(s, "GET", <<Lit("/api/subscriptions")>>,
                      AuthHeader(s), 0) IN
       \E resp \in Responses(req, NoBody) :
          Checked(s, "view_subscriptions", req, resp, resp.status_code = 200,
                  <<Lit("View subscriptions failed: "), PyInt(resp.status_code)>>)
    /\ Done(s)
    /\ Stateless

access_premium_content(s) ==
    /\ Picked(s, "SubscriberUser")
    /\ \E content_id \in 1..MaxContentId :
       LET req == Send(s, "GET", <<Lit("/api/content/"), PyInt(content_id), Lit("/premium")>>,
                      AuthHeader(s), 0) IN
       \E resp \in Responses(req, NoBody) :
          Checked(s, "access_premium_content", req, resp, resp.status_code \in {200, 403},
                  <<Lit("Premium content access failed: "), PyInt(resp.status_code)>>)
    /\ Done(s)
    /\ Stateless

manage_payment_methods(s) ==
    /\ Picked(s, "SubscriberUser")
    /\ LET req == Send(s, "GET", <<Lit("/api/payments/methods")>>,
                      AuthHeader(s), 0) IN
       \E resp \in Responses(req, NoBody) :
          Checked(s, "manage_payment_methods", req, resp, resp.status_code = 200,
                  <<Lit("Get payment methods failed: "), PyInt(resp.status_code)>>)
    /\ Done(s)
    /\ Stateless

check_subscription_status(s) ==
    /\ Picked(s, "SubscriberUser")
    /\ LET req == Send(s, "GET", <<Lit("/api/subscriptions/status")>>,
                      AuthHeader(s), 0) IN
       \E resp \in Responses(req, NoBody) :
          Checked(s, "check_subscription_status", req, resp, resp.status_code = 200,
                  <<Lit("Check subscription status failed: "), PyInt(resp.status_code)>>)
    /\ Done(s)
    /\ Stateless

(***************************************************************************)
(* CreatorUser                                                             *)
(***************************************************************************)
\* (variant) the id is appended whatever the status code
PublishList_AnyStatus(ids, resp) ==
    IF Truthy(DictGet(resp.body, "id", PyNone))
    THEN Append(ids, DictGet(resp.body, "id", PyNone))
    ELSE ids

\* (variant) the id is inserted at the front
PublishList_Prepend(ids, resp) ==
    IF resp.status_code = 201 /\ Truthy(DictGet(resp.body, "id", PyNone))
    THEN <<DictGet(resp.body, "id", PyNone)>> \o ids
    ELSE ids

\* (variant) no "if content_id:" before the append
PublishList_NoTruthyCheck(ids, resp) ==
    IF resp.status_code = 201
    THEN Append(ids, DictGet(resp.body, "id", PyNone))
    ELSE ids

\* the response's "id", appended when the status is 201 and the id is truthy
PublishList(ids, resp) ==
    IF resp.status_code = 201 /\ Truthy(DictGet(resp.body, "id", PyNone))
    THEN Append(ids, DictGet(resp.body, "id", PyNone))
    ELSE ids

\* (variant) the failure message leaves the status code out
PublishOutcome_NoCode(req, resp) ==
    IF resp.status_code = 201
    THEN Success(req)
    ELSE Failure(req, <<Lit("Publish failed")>>)

\* (variant) 200 is accepted as well
PublishOutcome_Accepts200(req, resp) ==
    IF resp.status_code \in {200, 201}
    THEN Success(req)
    ELSE Failure(req, <<Lit("Publish failed: "), PyInt(resp.status_code)>>)

PublishOutcome(req, resp) ==
    IF resp.status_code = 201
    THEN Success(req)
    ELSE Failure(req, <<Lit("Publish failed: "), PyInt(resp.status_code)>>)

\* the API's answers to a publish; once the list is MaxCreated long only
\* those without a usable id are followed
PublishResponses(s, req) ==
    {r \in Responses(req, PublishBodies) :
        Len(created_content_ids[s]) < MaxCreated
        \/ ~Truthy(DictGet(r.body, "id", PyNone))}

\* (variant) created_content_ids is one list shared by the class
publish_content_SharedList(s) ==
    /\ Picked(s, "CreatorUser")
    /\ LET req == Send(s, "POST", <<Lit("/api/content/create")>>,
                       AuthHeader(s), 0) IN
       \E resp \in PublishResponses(s, req) :
          /\ created_content_ids' =
               [t \in Sessions |-> PublishList(created_content_ids[s], resp)]
          /\ step' = Exchange(s, "publish_content", req, resp,
                              PublishOutcome(req, resp))
          /\ published' =
               [published EXCEPT
                  ![s] = @ \/ PublishOutcome(req, resp).kind = "success"]
          /\ returnedIds' =
               [returnedIds EXCEPT
                  ![s] = @ \cup {v \in {DictGet(resp.body, "id", PyNone)} :
                                   resp.status_code = 201 /\ Truthy(v)}]
    /\ Done(s)
    /\ TaskFrame

publish_content(s) ==
    /\ Picked(s, "CreatorUser")
    /\ LET req == Send(s, "POST", <<Lit("/api/content/create")>>,
                       AuthHeader(s), 0) IN
       \E resp \in PublishResponses(s, req) :
          /\ created_content_ids' =
               [created_content_ids EXCEPT ![s] = PublishList(@, resp)]
          /\ step' = Exchange(s, "publish_content", req, resp,
                              PublishOutcome(req, resp))
          /\ published' =
               [published EXCEPT
                  ![s] = @ \/ PublishOutcome(req, resp).kind = "success"]
          /\ returnedIds' =
               [returnedIds EXCEPT
                  ![s] = @ \cup {v \in {DictGet(resp.body, "id", PyNone)} :
                                   resp.status_code = 201 /\ Truthy(v)}]
    /\ Done(s)
    /\ TaskFrame

\* if self.created_content_ids:
HasCreated(ids) == Len(ids) > 0

update_content(s) ==
    /\ Picked(s, "CreatorUser")
    /\ IF HasCreated(created_content_ids[s])
       THEN \E i \in 1..Len(created_content_ids[s]) :
              LET content_id == created_content_ids[s][i]
                  req == Send(s, "PUT", <<Lit("/api/content/"), content_id>>,
                              AuthHeader(s), 0) IN
              \E resp \in Responses(req, NoBody) :
                 Checked(s, "update_content", req, resp,
                         resp.status_code = 200,
                         <<Lit("Update failed: "), PyInt(resp.status_code)>>)
       ELSE step' = Skipped(s, "update_content")
    /\ Done(s)
    /\ Stateless

view_analytics(s) ==
    /\ Picked(s, "CreatorUser")
    /\ IF HasCreated(created_content_ids[s])
       THEN \E i \in 1..Len(created_content_ids[s]) :
              LET content_id == created_content_ids[s][i]
                  req == Send(s, "GET", <<Lit("/api/content/"), content_id,
                                          Lit("/analytics")>>,
                              AuthHeader(s), 0) IN
              \E resp \in Responses(req, NoBody) :
                 Checked(s, "view_analytics", req, resp,
                         resp.status_code = 200,
                         <<Lit("Analytics fetch failed: "),
                           PyInt(resp.status_code)>>)
       ELSE step' = Skipped(s, "view_analytics")
    /\ Done(s)
    /\ Stateless

list_content(s) ==
    /\ Picked(s, "CreatorUser")
    /\ LET req == Send(s, "GET", <<Lit("/api/creator/content")>>,
                       AuthHeader(s), 0) IN
       \E resp \in Responses(req, NoBody) :
          Checked(s, "list_content", req, resp, resp.status_code = 200,
                  <<Lit("List content failed: "), PyInt(resp.status_code)>>)
    /\ Done(s)
    /\ Stateless

(***************************************************************************)
(* ContentStreamingUser (content-streaming-locust.py)                      *)
(***************************************************************************)
\* the with-block calls response.failure() on a status other than 200 and
\* nothing otherwise, which leaves the verdict to Locust
StreamingOutcome(req, resp, message) ==
    IF resp.status_code # 200 THEN Failure(req, message)
    ELSE AutoOutcome(req, resp)

ContentStreamingUser_stream_content(s) ==
    /\ Picked(s, "ContentStreamingUser")
    /\ \E content_id \in 1..MaxContentId :
       LET req == Send(s, "GET", <<Lit("/api/delivery/"), PyInt(content_id),
                                   Lit("/stream")>>, EmptyDict, 0) IN
       \E resp \in Responses(req, NoBody) :
          step' = Exchange(s, "stream_content", req, resp,
                     StreamingOutcome(req, resp,
                        <<Lit("Failed to stream content "), PyInt(content_id),
                          Lit(": "), PyInt(resp.status_code)>>))
    /\ Done(s)
    /\ Stateless

get_content_metadata(s) ==
    /\ Picked(s, "ContentStreamingUser")
    /\ \E content_id \in 1..MaxContentId :
       LET req == Send(s, "GET", <<Lit("/api/delivery/"), PyInt(content_id),
                                   Lit("/metadata")>>, EmptyDict, 0) IN
       \E resp \in Responses(req, NoBody) :
          step' = Exchange(s, "get_content_metadata", req, resp,
                     StreamingOutcome(req, resp,
                        <<Lit("Failed to get metadata for "),
                          PyInt(content_id), Lit(": "),
                          PyInt(resp.status_code)>>))
    /\ Done(s)
    /\ Stateless

(***************************************************************************)
(* The system                                                              *)
(***************************************************************************)
SessionStep(s) ==
        \/ ContentViewerUser_on_start(s)
        \/ CreatorUser_on_start(s)
        \/ SubscriberUser_on_start(s)
        \/ ContentStreamingUser_on_start(s)
        \/ browse_content(s)
        \/ view_content(s)
        \/ stream_content(s)
        \/ like_content(s)
        \/ search_content(s)
        \/ publish_content(s)
        \/ update_content(s)
        \/ view_analytics(s)
        \/ list_content(s)
        \/ view_subscriptions(s)
        \/ access_premium_content(s)
        \/ manage_payment_methods(s)
        \/ check_subscription_status(s)
        \/ ContentStreamingUser_stream_content(s)
        \/ get_content_metadata(s)
        \/ wait(s)

Next ==
    \/ \E s \in Sessions : SessionStep(s)
    \/ Stop

Spec == Init /\ [][Next]_vars

OneUserSpec == OneUserInit /\ [][Next]_vars

\* the scheduler resumes a user whose request or sleep has ended; nothing
\* obliges the runtime to stop the test
FairOneUserSpec ==
    OneUserSpec /\ \A s \in Sessions : WF_vars(SessionStep(s))

(***************************************************************************)
(* Properties                                                              *)
(***************************************************************************)
RequestTasks ==
    {"browse_content", "view_content", "stream_content", "like_content",
     "search_content", "publish_content", "update_content", "view_analytics",
     "list_content", "view_subscriptions", "access_premium_content",
     "manage_payment_methods", "check_subscription_status",
     "get_content_metadata"}

\* the last step was a task that issued a request
Requested == step.task \in RequestTasks /\ step.requests # <<>>

\* the allow-lists as the specification states them
StatedAllowList(task) ==
    CASE task = "like_content"           -> {200, 201}
      [] task = "access_premium_content" -> {200, 403}
      [] task = "publish_content"        -> {201}
      [] OTHER                           -> {200}

\* the last step was a request task answered outside its allow-list
Rejected ==
    /\ Requested
    /\ step.responses[1].status_code \notin StatedAllowList(step.task)

\* the last request goes to PUT /api/content/{id} or GET /api/content/{id}/analytics
ToUpdateOrAnalytics(req) ==
    /\ Len(req.url) >= 2
    /\ req.url[1] = Lit("/api/content/")
    /\ \/ req.method = "PUT" /\ Len(req.url) = 2
       \/ req.method = "GET" /\ Len(req.url) = 3 /\ req.url[3] = Lit("/analytics")

\* the elements of a list
Elements(ids) == {ids[i] : i \in 1..Len(ids)}

----------------------------------------------------------------------------
\* C1: in a Creator session no PUT /api/content/{id} and no
\* GET /api/content/{id}/analytics request is issued, by update_content,
\* view_analytics or anything else, unless a publish_content of the same
\* session has been recorded as a success before.
C1_NoUpdateOrAnalyticsBeforePublish ==
    \A i \in 1..Len(step.requests) :
        (step.task \in {"update_content", "view_analytics"}
         \/ ToUpdateOrAnalytics(step.requests[i]))
        => published[step.sess]

\* an update_content request has gone out
C1_Witness ==
    /\ step.task = "update_content"
    /\ step.requests # <<>>
    /\ ToUpdateOrAnalytics(step.requests[1])
    /\ published[step.sess]

----------------------------------------------------------------------------
\* C2: every request a session issues after its bootstrap carries
\* Authorization: Bearer <token>, <token> being the value the session got at
\* its start, and neither auth_token nor the session-wide headers change once
\* the session has started.  (The login request is the one that fetches the
\* token; it carries Content-Type only.)
C2_HeaderCarriesStartToken ==
    (step.task # "login") =>
        \A i \in 1..Len(step.requests) :
            /\ "Authorization" \in DOMAIN step.requests[i].headers
            /\ step.requests[i].headers["Authorization"]
                 = <<Lit("Bearer "), startToken[step.sess]>>

C2_TokenStable ==
    \A s \in Sessions :
        startToken[s] # Unset =>
            /\ startToken'[s] = startToken[s]
            /\ auth_token'[s] = auth_token[s]
            /\ client_headers'[s] = client_headers[s]

----------------------------------------------------------------------------
\* C3 (as stated): a status code outside the task's allow-list yields a
\* recorded failure whose message is non-empty and contains both the
\* endpoint and the status code.
C3_AsStated ==
    Rejected =>
        /\ Len(step.outcomes) = 1
        /\ step.outcomes[1].kind = "failure"
        /\ step.outcomes[1].message # <<>>
        /\ Contains(step.outcomes[1].message, step.requests[1].url)
        /\ Contains(step.outcomes[1].message,
                    <<PyInt(step.responses[1].status_code)>>)

\* C3 (amended): a status code outside the task's allow-list yields exactly
\* one recorded failure; it is recorded under the request's endpoint (its
\* name) and its message is non-empty and contains the status code.  Where
\* the on_failure listener is installed, the line it logs contains both the
\* endpoint and the status code.
C3_FailureNamesEndpointMessageHasCode ==
    Rejected =>
        /\ Len(step.outcomes) = 1
        /\ step.outcomes[1].kind = "failure"
        /\ step.outcomes[1].name = step.requests[1].url
        /\ step.outcomes[1].message # <<>>
        /\ Contains(step.outcomes[1].message,
                    <<PyInt(step.responses[1].status_code)>>)
        /\ profile[step.sess] \in ConcurrentUsersClasses =>
             /\ Len(step.logged) = 1
             /\ Contains(step.logged[1], step.requests[1].url)
             /\ Contains(step.logged[1],
                         <<PyInt(step.responses[1].status_code)>>)

\* a publish answered 200 was recorded as a failure
C3_Witness ==
    /\ Rejected
    /\ step.task = "publish_content"
    /\ step.responses[1].status_code = 200
    /\ step.outcomes[1].kind = "failure"

----------------------------------------------------------------------------
\* the sessions that log in: those of concurrent-users-locust.py
LoggedIn(s) == profile[s] \in ConcurrentUsersClasses /\ pc[s] \in {"ready", "waiting"}

\* the last step was the bootstrap of a session that logs in
JustLoggedIn == step.task = "login"

----------------------------------------------------------------------------
\* the last step was a request task of session s that failed: a status
\* outside the allow-list, 0 (with the error that was raised) included
FailedTask(s) == Rejected /\ step.sess = s

\* the last step is the sleep of session s that follows a task
Slept(s) == step.sess = s /\ step.task = "wait"

\* the last step is a task of session s
RanTask(s) == step.sess = s /\ step.task \in RequestTasks

\* the runtime has stopped the test
StoppedByRuntime == step.task = "stop"

\* C5, the part every state shows: a failed task (the 30 s timeout of the
\* Viewer's stream task included) is recorded as one failed request and
\* leaves the user in its loop, about to wait; a user is out of its loop
\* only if it was never spawned or the runtime stopped the test.
C5_FailureRecordedUserWaits ==
    /\ Rejected =>
         /\ Len(step.outcomes) = 1
         /\ step.outcomes[1].kind = "failure"
         /\ pc[step.sess] = "waiting"
    /\ \A s \in Sessions :
         (pc[s] = "stopped" /\ startToken[s] # Unset) => StoppedByRuntime

\* C5: no failure is fatal to a user's loop.  After a failed task the
\* failure is recorded and the user goes on, under a scheduler that resumes
\* it, to sleep and then to run a next task, unless the runtime stops the
\* test first.
C5_NoFailureIsFatal ==
    /\ []C5_FailureRecordedUserWaits
    /\ \A s \in Sessions :
         /\ FailedTask(s) ~> (Slept(s) \/ StoppedByRuntime)
         /\ Slept(s) ~> (RanTask(s) \/ StoppedByRuntime)

\* the Viewer's stream request timed out and was recorded as a failure
C5_Witness ==
    /\ step.task = "stream_content"
    /\ profile[step.sess] = "ContentViewerUser"
    /\ step.requests[1].timeout = 30
    /\ step.responses[1].error = "ReadTimeout"
    /\ step.outcomes[1].kind = "failure"
    /\ pc[step.sess] = "waiting"

----------------------------------------------------------------------------
\* the attributes of a session
SessionState(s) ==
    <<user_id[s], auth_token[s], created_content_ids[s], client_headers[s]>>

\* the same, after the step
SessionStateAfter(s) ==
    <<user_id'[s], auth_token'[s], created_content_ids'[s], client_headers'[s]>>

\* C6: under any interleaving of the steps of concurrent sessions, a step
\* changes the state (user id, auth token, list of content ids, headers) of
\* no session but the one that takes it.
C6_StepsChangeOwnSessionOnly ==
    [][\A s \in Sessions :
          step'.sess # s => SessionStateAfter(s) = SessionState(s)]_vars

\* two creators with different tokens and different lists, one of which has
\* just published
C6_Witness ==
    /\ step.task = "publish_content"
    /\ step.sess = "s1"
    /\ created_content_ids["s1"] = <<PyInt(1), PyInt(2)>>
    /\ created_content_ids["s2"] = <<PyInt(2)>>
    /\ auth_token["s1"] = PyStr("tokA")
    /\ auth_token["s2"] = PlaceholderToken

----------------------------------------------------------------------------
\* the step appended the id of a publish that was recorded as a success
AppendedByPublish(s) ==
    /\ step'.sess = s
    /\ step'.task = "publish_content"
    /\ step'.outcomes[1].kind = "success"
    /\ "id" \in DOMAIN step'.responses[1].body
    /\ created_content_ids'[s]
         = Append(created_content_ids[s], step'.responses[1].body["id"])

\* C7: created_content_ids is append-only.  A step either leaves the list as
\* it is or is a publish_content recorded as a success that appends the id
\* of its response at the end; every identifier in the list keeps its
\* position.  Every other task and a failed publish leave it unchanged.
C7_ListIsAppendOnly ==
    [][\A s \in Sessions :
          /\ \/ created_content_ids'[s] = created_content_ids[s]
             \/ AppendedByPublish(s)
          /\ Len(created_content_ids'[s]) >= Len(created_content_ids[s])
          /\ \A i \in 1..Len(created_content_ids[s]) :
                created_content_ids'[s][i] = created_content_ids[s][i]]_vars

\* a second, different id has been appended behind the first
C7_Witness ==
    /\ step.task = "publish_content"
    /\ step.outcomes[1].kind = "success"
    /\ created_content_ids[step.sess] = <<PyInt(1), PyInt(2)>>
    /\ step.responses[1].body = [id |-> PyInt(2)]

----------------------------------------------------------------------------
\* the bounds as the specification states them
StatedWaitMin(p) ==
    CASE p = "ContentViewerUser" -> 1
      [] p = "CreatorUser" -> 2
      [] p = "SubscriberUser" -> 1
      [] p = "ContentStreamingUser" -> 1

StatedWaitMax(p) ==
    CASE p = "ContentViewerUser" -> 5
      [] p = "CreatorUser" -> 8
      [] p = "SubscriberUser" -> 4
      [] p = "ContentStreamingUser" -> 3

\* C8: the sleep between two task iterations lies within [1,5] for a Viewer,
\* [2,8] for a Creator, [1,4] for a Subscriber and [1,3] for the streaming
\* user (step.sleep is in units of 1/Resolution).
C8_SleepWithinBounds ==
    step.task = "wait" =>
        /\ StatedWaitMin(profile[step.sess]) * Resolution <= step.sleep
        /\ step.sleep <= StatedWaitMax(profile[step.sess]) * Resolution

\* a creator slept longer than any viewer may
C8_Witness ==
    /\ step.task = "wait"
    /\ profile[step.sess] = "CreatorUser"
    /\ step.sleep > 5 * Resolution

----------------------------------------------------------------------------
----------------------------------------------------------------------------
\* the content id an update_content or view_analytics request names
TargetId(req) == req.url[2]

\* the ids of the list are truthy ids that 201 answers to publish_content of
\* this session carried, and a request of update_content or view_analytics
\* names one of them
C10_TargetsAreCreatedIds ==
    /\ \A s \in Sessions :
         /\ Elements(created_content_ids[s]) \subseteq returnedIds[s]
         /\ \A v \in returnedIds[s] : Truthy(v)
    /\ (step.task \in {"update_content", "view_analytics"}
        /\ step.requests # <<>>) =>
          /\ TargetId(step.requests[1])
               \in Elements(created_content_ids[step.sess])
          /\ TargetId(step.requests[1]) \in returnedIds[step.sess]

\* a 201 answer without a truthy id is a success that adds nothing
C10_IdlessPublishAddsNothing ==
    \A s \in Sessions :
        (/\ step'.sess = s
         /\ step'.task = "publish_content"
         /\ step'.responses[1].status_code = 201
         /\ ~Truthy(DictGet(step'.responses[1].body, "id", PyNone)))
        => /\ step'.outcomes[1].kind = "success"
           /\ created_content_ids'[s] = created_content_ids[s]

====
